---- MODULE Spec2Model ----
(***************************************************************************)
(* go-fileserver (src/go-fileserver/main.go): the HTTP handlers of the     *)
(* file server over a filesystem of directories and regular files.         *)
(*                                                                         *)
(* File contents are run-length encoded byte strings (a sequence of runs   *)
(* [b |-> byte, n |-> count], no empty run, no two equal neighbours), so   *)
(* that files around the 1 MiB and 50 MiB thresholds are ordinary values.  *)
(* Path strings are sequences of tokens: the separator "/" and the names   *)
(* between separators.  A path of the filesystem is the sequence of its    *)
(* names from the root; the process runs with the root as its working      *)
(* directory.                                                              *)
(***************************************************************************)
EXTENDS Integers, Sequences, FiniteSets, TLC

VARIABLES
    FolderList, \* FileServer.FolderList, set once by main
    fs,         \* the filesystem: [dirs, files]
    pc,         \* handleUpload, per request: where the handler stands
    req,        \* handleUpload, per request: method and query parameters
    cur,        \* handleUpload, per request: the part in hand and its outPath
    open,       \* handleUpload, per request: the destination files now open
    log,        \* handleUpload, per request: the parts read so far, in order
    resp,       \* handleUpload, per request: the responses written so far
    changed,    \* per request: the last part read has changed the filesystem
    vpc,        \* handleFileView: where the handler stands
    vreq,       \* handleFileView: the request's path parameter
    vopen,      \* handleFileView: the number of files now open
    out         \* the last response of handleTree / File / Raw / Download

vars == <<FolderList, fs, pc, req, cur, open, log, resp, changed, vpc, vreq, vopen, out>>

upvars == <<pc, req, cur, open, log, resp, changed>>

viewvars == <<vpc, vreq, vopen>>

\* ------------------------------------------------------------------------
\* Bounds of the model

\* The parts one upload request may carry.
MaxParts == 2

\* The parts each of two concurrent upload requests may carry.
MaxConcParts == 2

\* ------------------------------------------------------------------------
\* Program constants

MaxViewBytes == 50 * 1024 * 1024

maxRead == 1 * 1024 * 1024

SniffLen == 800

\* ------------------------------------------------------------------------
\* Byte strings, run-length encoded

Min(a, b) == IF a < b THEN a ELSE b

Run(b, n) == IF n = 0 THEN << >> ELSE << [b |-> b, n |-> n] >>

\* the number of bytes of c
RECURSIVE Size(_)
Size(c) == IF c = << >> THEN 0 ELSE c[1].n + Size(Tail(c))

\* c followed by d
Cat(c, d) ==
    IF c = << >> THEN d
    ELSE IF d = << >> THEN c
    ELSE IF c[Len(c)].b = d[1].b
         THEN SubSeq(c, 1, Len(c) - 1)
              \o << [b |-> d[1].b, n |-> c[Len(c)].n + d[1].n] >>
              \o Tail(d)
         ELSE c \o d

\* the first k bytes of c (all of c when it is shorter)
RECURSIVE Take(_, _)
Take(c, k) ==
    IF c = << >> \/ k <= 0 THEN << >>
    ELSE IF c[1].n >= k THEN << [b |-> c[1].b, n |-> k] >>
    ELSE << c[1] >> \o Take(Tail(c), k - c[1].n)

\* c without its first k bytes
RECURSIVE Drop(_, _)
Drop(c, k) ==
    IF c = << >> \/ k <= 0 THEN c
    ELSE IF c[1].n > k THEN << [b |-> c[1].b, n |-> c[1].n - k] >> \o Tail(c)
    ELSE Drop(Tail(c), k - c[1].n)

\* write(2) of d at offset off of a file holding c (a hole reads as zeros)
WriteAt(c, off, d) ==
    Cat(Cat(Cat(Take(c, off), Run(0, off - Min(off, Size(c)))), d),
        Drop(c, off + Size(d)))

\* ------------------------------------------------------------------------
\* Path strings (path/filepath on a slash-separated host) and the tables of
\* the extensions of the names the model uses

Sep == "/"

\* the names between the separators of the path string s
Segs(s) == SelectSeq(s, LAMBDA t : t # Sep)

\* filepath.Clean of the names segs of a rooted (abs) or relative path
RECURSIVE CleanSegs(_, _, _)
CleanSegs(segs, abs, acc) ==
    IF segs = << >> THEN acc
    ELSE LET h == Head(segs) IN
         IF h = "." THEN CleanSegs(Tail(segs), abs, acc)
         ELSE IF h = ".."
              THEN IF acc # << >> /\ acc[Len(acc)] # ".."
                   THEN CleanSegs(Tail(segs), abs, SubSeq(acc, 1, Len(acc) - 1))
                   ELSE IF abs THEN CleanSegs(Tail(segs), abs, acc)
                   ELSE CleanSegs(Tail(segs), abs, Append(acc, h))
              ELSE CleanSegs(Tail(segs), abs, Append(acc, h))

\* The path of the filesystem that the kernel resolves the string s to: its
\* names from the root (the working directory is the root).
Resolve(s) == CleanSegs(Segs(s), TRUE, << >>)

\* filepath.Join(a, b) for non-empty a and b, as a path of the filesystem
Join(a, b) == CleanSegs(Segs(a \o << Sep >> \o b), TRUE, << >>)

\* filepath.Dir of a path of the filesystem
Dir(p) == IF p = << >> THEN p ELSE SubSeq(p, 1, Len(p) - 1)

\* filepath.Base of the path string s
Base(s) ==
    IF s = << >> THEN << "." >>
    ELSE IF Segs(s) = << >> THEN << Sep >>
    ELSE << Segs(s)[Len(Segs(s))] >>

\* The path string of a path of the filesystem (filepath.ToSlash is the
\* identity on a slash-separated host).
RECURSIVE ToSlash(_)
ToSlash(p) == IF p = << >> THEN << >> ELSE << Sep, Head(p) >> \o ToSlash(Tail(p))

\* filepath.Ext of one name: from its last dot on
ExtOfName(name) ==
    CASE name = "r.pdf" -> ".pdf"
      [] name = "R.PDF" -> ".PDF"
      [] name = "n.md" -> ".md"
      [] name = "m.markdown" -> ".markdown"
      [] name = "p.png" -> ".png"
      [] name = "t.txt" -> ".txt"
      [] name = "g.go" -> ".go"
      [] name = "." -> "."
      [] name = ".." -> "."
      [] OTHER -> ""

\* filepath.Ext of the path string s: the extension of its last element
Ext(s) == IF s = << >> \/ s[Len(s)] = Sep THEN "" ELSE ExtOfName(s[Len(s)])

\* strings.ToLower on the extensions above
ToLower(e) == IF e = ".PDF" THEN ".pdf" ELSE e

\* mime.TypeByExtension (the table built into package mime; it looks the
\* extension up as given, then lower-cased)
TypeByExtension(e) ==
    CASE ToLower(e) = ".pdf" -> "application/pdf"
      [] ToLower(e) = ".png" -> "image/png"
      [] OTHER -> ""

\* strings.HasPrefix(mimeType, "image/")
IsImage(mimeType) == mimeType = "image/png"

\* ------------------------------------------------------------------------
\* The filesystem: directories and regular files (package os)

\* p and the directories above it
Prefixes(p) == { SubSeq(p, 1, k) : k \in 0 .. Len(p) }

IsDir(f, p) == p \in f.dirs

IsFile(f, p) == p \in DOMAIN f.files

\* the directories os.MkdirAll(p) has to make
Missing(f, p) == { q \in Prefixes(p) : ~IsDir(f, q) }

\* os.MkdirAll(p): nothing to do for a directory, an error when p or a path
\* above it is a file, else every missing directory down to p is made
MkdirAll(f, p) ==
    IF IsDir(f, p) THEN [fs |-> f, ok |-> TRUE]
    ELSE IF \E q \in Prefixes(p) : IsFile(f, q) THEN [fs |-> f, ok |-> FALSE]
    ELSE [fs |-> [f EXCEPT !.dirs = @ \cup Prefixes(p)], ok |-> TRUE]

\* os.MkdirAll(p) failing in the operating system (permissions, a full
\* disk) after it made the k topmost of the missing directories, not all
MkdirAllFault(f, p, k) ==
    [fs |-> [f EXCEPT !.dirs = @ \cup { q \in Missing(f, p) :
                Cardinality({ m \in Missing(f, p) : Len(m) <= Len(q) }) <= k }],
     ok |-> FALSE]

\* os.Create(p): O_RDWR|O_CREATE|O_TRUNC; an error for a directory and for
\* a path whose parent is no directory
Create(f, p) ==
    IF IsDir(f, p) \/ ~IsDir(f, Dir(p)) THEN [fs |-> f, ok |-> FALSE]
    ELSE [fs |-> [f EXCEPT !.files =
                    [q \in DOMAIN f.files \cup {p} |->
                        IF q = p THEN << >> ELSE f.files[q]]],
          ok |-> TRUE]

\* (*os.File).Write of chunk at offset off of the open file p
Write(f, p, off, chunk) ==
    [f EXCEPT !.files[p] = WriteAt(@, off, chunk)]

\* os.ReadDir(p): the names in directory p, each with IsDir()
ReadDir(f, p) ==
    { [name |-> q[Len(q)], dir |-> IsDir(f, q)] :
        q \in { x \in f.dirs \cup DOMAIN f.files : x # << >> /\ Dir(x) = p } }

\* ------------------------------------------------------------------------
\* handleUpload, one instance per request in flight

Reqs == {1, 2}

\* A part as the log keeps it: what the client sent (form, fname, data), the
\* step of its processing that failed ("" while none has), and the fault the
\* operating system or the client injected there, if that is why ("none"
\* when the filesystem's state alone decided), with how far the step got.
NoPart ==
    [form |-> "", fname |-> << >>, data |-> << >>, failed |-> "", fault |-> "none",
     n |-> 0]

NoCur == [outPath |-> << >>, i |-> 0, err |-> FALSE]

NoReq == [method |-> "", folder |-> << >>, rel |-> << >>, multipart |-> FALSE]

\* (*multipart.Part).FileName: the declared filename through filepath.Base,
\* an undeclared one as the empty string
FileName(part) == IF part.fname = << >> THEN << >> ELSE Base(part.fname)

\* a handler that takes every part with a filename for a file
IsFilePartAnyField(part) == FileName(part) # << >>

\* Only process file fields (form field name 'files')
IsFilePart(part) == part.form = "files" /\ FileName(part) # << >>

\* a handler that names every file after its part, whatever the request says
EffectiveNameOfPart(q, part) == FileName(part)

\* the relativePath query parameter overrides the part's filename
EffectiveName(q, part) == IF q.rel # << >> THEN q.rel ELSE FileName(part)

OutPath(q, part) == Join(q.folder, EffectiveName(q, part))

JsonOk == [status |-> 200, json |-> TRUE, success |-> TRUE, error |-> ""]

JsonFail(msg) == [status |-> 200, json |-> TRUE, success |-> FALSE, error |-> msg]

HttpError(msg, code) == [status |-> code, json |-> FALSE, success |-> FALSE, error |-> msg]

\* a handler that writes a failure and goes on to the next part
FinishNoReturn(r, response) ==
    /\ resp' = [resp EXCEPT ![r] = Append(@, response)]
    /\ pc' = [pc EXCEPT ![r] = IF response.success THEN "done" ELSE "next"]

\* a handler whose failure ends the process, and every request with it
FinishAll(r, response) ==
    /\ resp' = [resp EXCEPT ![r] = Append(@, response)]
    /\ pc' = IF response.success THEN [pc EXCEPT ![r] = "done"]
             ELSE [q \in Reqs |-> "done"]

\* the handler writes its response and returns
Finish(r, response) ==
    /\ resp' = [resp EXCEPT ![r] = Append(@, response)]
    /\ pc' = [pc EXCEPT ![r] = "done"]

\* the log notes that step kind of the part in hand failed
NoteFailed(r, kind) ==
    log' = [log EXCEPT ![r][Len(log[r])].failed = kind]

\* the same for a fault the operating system or the client injected
NoteFault(r, kind, n) ==
    log' = [log EXCEPT ![r][Len(log[r])].failed = kind,
                       ![r][Len(log[r])].fault = kind, ![r][Len(log[r])].n = n]

\* the destination file of the part in hand, while it is open
Handle(r) == CHOOSE h \in open[r] : h.id = Len(log[r])

\* lines 246-267: the method, the folder parameter, the multipart reader
UploadStart(r, requests) ==
    /\ pc[r] = "idle"
    /\ \E q \in requests :
        /\ req' = [req EXCEPT ![r] = q]
        /\ IF q.method # "POST"
           THEN Finish(r, HttpError("Method not allowed", 405))
           ELSE IF q.folder = << >>
           THEN Finish(r, JsonFail("Missing folder param"))
           ELSE IF ~q.multipart
           THEN Finish(r, JsonFail("Not a multipart request"))
           ELSE pc' = [pc EXCEPT ![r] = "next"] /\ resp' = resp
    /\ UNCHANGED <<FolderList, fs, cur, open, log, changed, viewvars, out>>

\* lines 270-291: reader.NextPart() ends the stream, fails, or hands over
\* the next part, which is skipped unless it is a file part
UploadNextPart(r, parts, max) ==
    /\ pc[r] = "next"
    /\ \/ /\ Finish(r, JsonOk)
          /\ UNCHANGED <<cur, log, changed>>
       \/ /\ log' = [log EXCEPT ![r] =
                        Append(@, [NoPart EXCEPT !.failed = "stream", !.fault = "stream"])]
          /\ Finish(r, JsonFail("stream"))
          /\ UNCHANGED <<cur, changed>>
       \/ /\ Len(log[r]) < max
          /\ \E part \in parts :
              /\ log' = [log EXCEPT ![r] = Append(@, part)]
              /\ changed' = [changed EXCEPT ![r] = FALSE]
              /\ IF IsFilePart(part)
                 THEN /\ cur' = [cur EXCEPT ![r] =
                                   [NoCur EXCEPT !.outPath = OutPath(req[r], part)]]
                      /\ pc' = [pc EXCEPT ![r] = "mkdir"]
                 ELSE UNCHANGED <<cur, pc>>
              /\ resp' = resp
    /\ UNCHANGED <<FolderList, fs, req, open, viewvars, out>>

\* lines 294-297: os.MkdirAll(filepath.Dir(outPath), 0755)
UploadMkdir(r) ==
    /\ pc[r] = "mkdir"
    /\ \/ LET m == MkdirAll(fs, Dir(cur[r].outPath)) IN
            /\ fs' = m.fs
            /\ IF m.ok
               THEN pc' = [pc EXCEPT ![r] = "create"] /\ resp' = resp /\ log' = log
               ELSE Finish(r, JsonFail("mkdir")) /\ NoteFailed(r, "mkdir")
       \/ \E k \in 0 .. Cardinality(Missing(fs, Dir(cur[r].outPath))) - 1 :
            /\ fs' = MkdirAllFault(fs, Dir(cur[r].outPath), k).fs
            /\ NoteFault(r, "mkdir", k)
            /\ Finish(r, JsonFail("mkdir"))
    /\ changed' = [changed EXCEPT ![r] = @ \/ fs' # fs]
    /\ UNCHANGED <<FolderList, req, cur, open, viewvars, out>>

\* lines 299-303: os.Create(outPath)
UploadCreate(r) ==
    /\ pc[r] = "create"
    /\ \/ LET c == Create(fs, cur[r].outPath) IN
            /\ fs' = c.fs
            /\ IF c.ok
               THEN /\ open' = [open EXCEPT ![r] = @ \cup
                            {[id |-> Len(log[r]), path |-> cur[r].outPath, off |-> 0]}]
                    /\ pc' = [pc EXCEPT ![r] =
                            IF log[r][Len(log[r])].data = << >> THEN "close" ELSE "copy"]
                    /\ resp' = resp
                    /\ log' = log
               ELSE Finish(r, JsonFail("create")) /\ NoteFailed(r, "create") /\ open' = open
       \/ /\ NoteFault(r, "create", 0)
          /\ Finish(r, JsonFail("create"))
          /\ UNCHANGED <<fs, open>>
    /\ changed' = [changed EXCEPT ![r] = @ \/ fs' # fs]
    /\ UNCHANGED <<FolderList, req, cur, viewvars, out>>

\* line 306: io.Copy(out, part), one chunk a step; a read from the part or
\* a write to the file may fail
UploadCopy(r) ==
    /\ pc[r] = "copy"
    /\ LET data == log[r][Len(log[r])].data
           h == Handle(r)
           chunk == data[cur[r].i + 1]
       IN \/ /\ fs' = Write(fs, h.path, h.off, chunk)
             /\ open' = [open EXCEPT ![r] =
                          (@ \ {h}) \cup {[h EXCEPT !.off = @ + Size(chunk)]}]
             /\ cur' = [cur EXCEPT ![r].i = @ + 1]
             /\ pc' = [pc EXCEPT ![r] =
                          IF cur[r].i + 1 = Len(data) THEN "close" ELSE "copy"]
             /\ log' = log
          \/ /\ NoteFault(r, "copy", cur[r].i)
             /\ cur' = [cur EXCEPT ![r].err = TRUE]
             /\ pc' = [pc EXCEPT ![r] = "close"]
             /\ UNCHANGED <<fs, open>>
    /\ changed' = [changed EXCEPT ![r] = @ \/ fs' # fs]
    /\ UNCHANGED <<FolderList, req, resp, viewvars, out>>

\* a handler that closes the file only after a copy that succeeded
ClosedOnSuccess(r) == IF cur[r].err THEN {} ELSE {Handle(r)}

\* line 307: out.Close(), whether or not the copy failed
Closed(r) == {Handle(r)}

\* lines 307-312: out.Close(), then the copy's error, if any
UploadClose(r) ==
    /\ pc[r] = "close"
    /\ open' = [open EXCEPT ![r] = @ \ Closed(r)]
    /\ IF cur[r].err
       THEN Finish(r, JsonFail("copy"))
       ELSE pc' = [pc EXCEPT ![r] = "next"] /\ resp' = resp
    /\ UNCHANGED <<FolderList, fs, req, cur, log, changed, viewvars, out>>

\* ------------------------------------------------------------------------
\* The read-only handlers.  A response is a record: the request's path,
\* the status, the JSON members written (type, content, language, mime),
\* the headers set, and the number of bytes the handler read from the file.
\* content holds a byte string; text a fixed message; ref a URL; a base64
\* payload is given by the bytes it encodes (b64).

NoOut ==
    [handler |-> "", path |-> << >>, status |-> 0, type |-> "", content |-> << >>,
     b64 |-> << >>, text |-> "", ref |-> << >>, lang |-> "", mime |-> "",
     disp |-> << >>, location |-> << >>, entries |-> {}, read |-> 0]

\* http.Error(w, msg, code)
ErrorResp(handler, p, msg, code) ==
    [NoOut EXCEPT !.handler = handler, !.path = p, !.status = code, !.text = msg]

\* encoding/json writes a string as UTF-8: a byte that is no valid UTF-8
\* becomes U+FFFD (bytes below 0x80 are themselves; the model's only other
\* byte, 0xFF, is valid in no sequence)
RECURSIVE JsonString(_)
JsonString(c) ==
    IF c = << >> THEN << >>
    ELSE Cat(Run(IF c[1].b < 128 THEN c[1].b ELSE 65533, c[1].n),
             JsonString(Tail(c)))

\* a listing that takes the files for folders and the folders for files
TreeRespSwapped(f, folderList, p) ==
    IF ~IsDir(f, Resolve(p))
    THEN ErrorResp("tree", p, "readdir", 400)
    ELSE [NoOut EXCEPT !.handler = "tree", !.path = p, !.status = 200,
            !.entries = { [name |-> e.name,
                           type |-> IF e.dir THEN "file" ELSE "folder",
                           path |-> ToSlash(Join(p, << e.name >>))] :
                          e \in ReadDir(f, Resolve(p)) }]

\* lines 68-106
TreeResp(f, folderList, p) ==
    IF p = << >> \/ p = << "." >> \/ p = << Sep >>
    THEN [NoOut EXCEPT !.handler = "tree", !.path = p, !.status = 200,
            !.entries = { [name |-> Base(folderList[i])[1], type |-> "folder",
                           path |-> ToSlash(Resolve(folderList[i]))] :
                          i \in DOMAIN folderList }]
    ELSE IF ~IsDir(f, Resolve(p))
    THEN ErrorResp("tree", p, "readdir", 400)
    ELSE [NoOut EXCEPT !.handler = "tree", !.path = p, !.status = 200,
            !.entries = { [name |-> e.name,
                           type |-> IF e.dir THEN "folder" ELSE "file",
                           path |-> ToSlash(Join(p, << e.name >>))] :
                          e \in ReadDir(f, Resolve(p)) }]

HandleTree(paths) ==
    /\ \E p \in paths : out' = TreeResp(fs, FolderList, p)
    /\ UNCHANGED <<FolderList, fs, upvars, viewvars>>

\* net/http.ServeFile(w, r, name) for a request without Range or conditional
\* headers whose URL path is urlPath: 404 for a missing file, a redirect to
\* the URL with a slash for a directory when the URL has none, else the bytes.
\* w holds the headers the handler set before.
ServeFile(f, w, name, urlPath) ==
    IF ~IsDir(f, Resolve(name)) /\ ~IsFile(f, Resolve(name))
    THEN [w EXCEPT !.status = 404, !.text = "404 page not found"]
    ELSE IF IsDir(f, Resolve(name))
    THEN [w EXCEPT !.status = 301, !.location = Base(urlPath) \o << Sep >>]
    ELSE [w EXCEPT !.status = 200, !.content = f.files[Resolve(name)],
                   !.read = Size(f.files[Resolve(name)]),
                   !.mime = IF w.mime # "" THEN w.mime
                            ELSE IF TypeByExtension(Ext(name)) # ""
                            THEN TypeByExtension(Ext(name)) ELSE "sniffed"]

\* lines 234-242
RawResp(f, p) ==
    IF p = << >> THEN ErrorResp("raw", p, "Missing path", 400)
    ELSE ServeFile(f, [NoOut EXCEPT !.handler = "raw", !.path = p], p,
                   << Sep, "api", Sep, "raw" >>)

HandleRawFile(paths) ==
    /\ \E p \in paths : out' = RawResp(fs, p)
    /\ UNCHANGED <<FolderList, fs, upvars, viewvars>>

\* lines 320-335
DownloadResp(f, p) ==
    IF p = << >> THEN ErrorResp("download", p, "Missing path", 400)
    ELSE ServeFile(f,
            [NoOut EXCEPT !.handler = "download", !.path = p,
                !.disp = << "attachment; filename=" >> \o Base(p),
                !.mime = IF TypeByExtension(Ext(Base(p))) = ""
                         THEN "application/octet-stream"
                         ELSE TypeByExtension(Ext(Base(p)))],
            p, << Sep, "api", Sep, "download" >>)

HandleDownload(paths) ==
    /\ \E p \in paths : out' = DownloadResp(fs, p)
    /\ UNCHANGED <<FolderList, fs, upvars, viewvars>>

\* ------------------------------------------------------------------------
\* handleFileView

\* lines 338-359
extToLang(ext) ==
    CASE ext = ".go" -> "go"
      [] ext = ".js" -> "javascript"
      [] ext = ".py" -> "python"
      [] ext = ".java" -> "java"
      [] ext = ".html" -> "html"
      [] ext = ".css" -> "css"
      [] ext = ".json" -> "json"
      [] ext = ".md" -> "markdown"
      [] OTHER -> ""

\* a sniff that takes the tab for a control byte
IsBinaryByteTab(b) == b = 0 \/ b <= 9 \/ (b > 13 /\ b < 32)

\* lines 148-155, one byte of head
IsBinaryByte(b) == b = 0 \/ b < 9 \/ (b > 13 /\ b < 32)

\* lines 146-156, the loop over head
IsBinaryHead(head) == \E i \in DOMAIN head : IsBinaryByte(head[i].b)

\* (*os.File).Stat().Size(); every directory is given the size 0
StatSize(f, path) == IF IsFile(f, path) THEN Size(f.files[path]) ELSE 0

\* a guard that refuses a file of exactly 50 MiB
TooLargeInclusive(size) == size >= MaxViewBytes

\* lines 132-138: the file is too large to view
TooLarge(size) == size > MaxViewBytes

\* lines 213-215: io.ReadAll(io.LimitReader(f, maxRead))
LimitRead(c) == Take(c, maxRead)

\* a notice also for a file of exactly 1 MiB
NoticeInclusive(size) == IF size >= maxRead THEN Run(-1, 1) ELSE << >>

\* lines 222-224: the truncation notice, one character no file holds
Notice(size) == IF size > maxRead THEN Run(-1, 1) ELSE << >>

\* Lines 125-230, on the file opened at p.  fault is what the operating
\* system does to this request: "stat" fails f.Stat(), "read" fails every
\* read of the file (as every read of a directory fails).  The sniff ignores
\* a failed read; the reads of the body report it.  Stat and the reads see
\* one state of the file.
ViewResp(f, p, fault) ==
    LET path == Resolve(p)
        w == [NoOut EXCEPT !.handler = "file", !.path = p, !.status = 200]
        c == IF IsFile(f, path) THEN f.files[path] ELSE << >>
        size == StatSize(f, path)
        readable == IsFile(f, path) /\ fault # "read"
        head == IF readable THEN Take(c, SniffLen) ELSE << >>
        isBinary == IsBinaryHead(head)
        ext == ToLower(Ext(p))
        mimeType == TypeByExtension(ext)
    IN  IF fault = "stat" THEN ErrorResp("file", p, "stat", 400)
        ELSE IF TooLarge(size)
        THEN [w EXCEPT !.type = "error",
                !.text = "File is too large to view (over 50MB). Please download it."]
        ELSE IF ext = ".pdf"
        THEN [w EXCEPT !.type = "pdf", !.ref = << "/api/raw?path=" >> \o p,
                !.read = Size(head)]
        ELSE IF ext = ".md" \/ ext = ".markdown"
        THEN IF ~readable THEN ErrorResp("file", p, "read", 500)
             ELSE [w EXCEPT !.type = "markdown", !.content = JsonString(c),
                     !.read = Size(head) + Size(c)]
        ELSE IF isBinary
        THEN IF IsImage(mimeType)
             THEN IF ~readable THEN ErrorResp("file", p, "read", 500)
                  ELSE [w EXCEPT !.type = "image", !.b64 = c, !.mime = mimeType,
                          !.read = Size(head) + Size(c)]
             ELSE [w EXCEPT !.type = "binary",
                     !.text = "[Binary file will not be displayed]",
                     !.read = Size(head)]
        ELSE IF ~readable THEN ErrorResp("file", p, "read", 500)
        ELSE [w EXCEPT !.type = "text",
                !.content = Cat(JsonString(LimitRead(c)), Notice(size)),
                !.lang = extToLang(ext),
                !.read = Size(head) + Size(LimitRead(c))]

\* a handler that closes the file itself, but not where it returns early
AfterViewLeak(n, response) == IF response.type = "error" THEN n ELSE n - 1

\* line 122: defer f.Close() runs at every return that follows it
AfterView(n, response) == n - 1

\* lines 110-122: the path parameter, os.Open, defer f.Close()
ViewOpen(paths) ==
    /\ vpc = "idle"
    /\ \E p \in paths :
        IF p = << >>
        THEN /\ out' = ErrorResp("file", p, "Missing path", 400)
             /\ UNCHANGED viewvars
        ELSE IF ~IsDir(fs, Resolve(p)) /\ ~IsFile(fs, Resolve(p))
        THEN /\ out' = ErrorResp("file", p, "open", 400)
             /\ UNCHANGED viewvars
        ELSE /\ vpc' = "open"
             /\ vreq' = p
             /\ vopen' = vopen + 1
             /\ out' = out
    /\ UNCHANGED <<FolderList, fs, upvars>>

\* lines 125-231, then the deferred close
ViewServe ==
    /\ vpc = "open"
    /\ \E fault \in {"none", "stat", "read"} :
        /\ out' = ViewResp(fs, vreq, fault)
        /\ vopen' = AfterView(vopen, ViewResp(fs, vreq, fault))
    /\ vpc' = "idle"
    /\ vreq' = << >>
    /\ UNCHANGED <<FolderList, fs, upvars>>

\* ------------------------------------------------------------------------
\* Requests, parts and files the model draws its inputs from

\* path strings
Str(names) == ToSlash(names)

Post(folder, rel) ==
    [method |-> "POST", folder |-> folder, rel |-> rel, multipart |-> TRUE]

Part(form, fname, data) ==
    [NoPart EXCEPT !.form = form, !.fname = fname, !.data = data]

\* part bodies, as the chunks io.Copy moves
DataA == << Run(65, 1) >>

DataB == << Run(66, 2), Run(67, 1) >>

DataOf(r) == IF r = 1 THEN DataA ELSE DataB

\* the bytes of a part body
RECURSIVE Bytes(_)
Bytes(data) == IF data = << >> THEN << >> ELSE Cat(data[1], Bytes(Tail(data)))

UploadRequests ==
    { Post(Str(<< "d" >>), << >>),
      Post(Str(<< "d" >>), << "sub", Sep, "x" >>),
      Post(Str(<< "d" >>), << "..", Sep, "x" >>),
      Post(Str(<< "d" >>), << "a" >>),
      Post(<< >>, << >>),
      [Post(Str(<< "d" >>), << >>) EXCEPT !.method = "GET"],
      [Post(Str(<< "d" >>), << >>) EXCEPT !.multipart = FALSE] }

UploadParts ==
    { Part("files", << "a" >>, DataA),
      Part("files", << "a" >>, DataB),
      Part("files", << "b" >>, << >>),
      Part("files", << "sub", Sep, "b" >>, DataA),
      Part("files", << ".." >>, DataA),
      Part("files", << >>, DataA),
      Part("file", << "a" >>, DataB) }

ConcRequests ==
    { Post(Str(<< "d" >>), << >>), Post(Str(<< "d", "sub" >>), << >>) }

ConcParts(r) ==
    { Part("files", << "a" >>, DataOf(r)), Part("files", << "sub" >>, DataOf(r)) }

\* the filesystem at startup: the served folder /d with a text file, a PDF,
\* a markdown file and a file too large to view
FsStart ==
    [dirs |-> { << >>, << "d" >> },
     files |-> [p \in { << "d", "b" >>, << "d", "r.pdf" >>, << "d", "n.md" >>,
                        << "d", "big" >> } |->
                  IF p = << "d", "big" >> THEN Run(65, MaxViewBytes + 1)
                  ELSE Run(68, 3)]]

InitServer ==
    /\ FolderList = << Str(<< "d" >>) >>
    /\ pc = [r \in Reqs |-> "idle"]
    /\ req = [r \in Reqs |-> NoReq]
    /\ cur = [r \in Reqs |-> NoCur]
    /\ open = [r \in Reqs |-> {}]
    /\ log = [r \in Reqs |-> << >>]
    /\ resp = [r \in Reqs |-> << >>]
    /\ changed = [r \in Reqs |-> FALSE]
    /\ vpc = "idle"
    /\ vreq = << >>
    /\ vopen = 0
    /\ out = NoOut

\* ------------------------------------------------------------------------
\* One upload request, with every kind of part

InitUpload == InitServer /\ fs = FsStart

NextUpload ==
    \/ UploadStart(1, UploadRequests)
    \/ UploadNextPart(1, UploadParts, MaxParts)
    \/ UploadMkdir(1)
    \/ UploadCreate(1)
    \/ UploadCopy(1)
    \/ UploadClose(1)

SpecUpload == InitUpload /\ [][NextUpload]_vars

\* ------------------------------------------------------------------------
\* Two upload requests in flight at once

NextConc ==
    \E r \in Reqs :
        \/ UploadStart(r, ConcRequests)
        \/ UploadNextPart(r, ConcParts(r), MaxConcParts)
        \/ UploadMkdir(r)
        \/ UploadCreate(r)
        \/ UploadCopy(r)
        \/ UploadClose(r)

SpecConc == InitUpload /\ [][NextConc]_vars

\* ------------------------------------------------------------------------
\* The file viewer on one file of every name, size and leading bytes

ViewNames == { "a", "r.pdf", "R.PDF", "n.md", "m.markdown", "p.png", "t.txt", "g.go" }

\* Up to SniffLen bytes of one value, then up to a little over MaxViewBytes
\* of another: the sizes on both sides of SniffLen, maxRead and MaxViewBytes.
ViewContents ==
    { Cat(Run(b1, n1), Run(b2, n2)) :
        b1 \in { 0, 8, 9, 13, 14, 31, 32, 65, 255 },
        n1 \in { 0, 1, SniffLen - 1, SniffLen },
        b2 \in { 0, 65 },
        n2 \in { 0, 1, maxRead - SniffLen, maxRead - SniffLen + 1,
                 MaxViewBytes - SniffLen, MaxViewBytes - SniffLen + 1 } }

ViewPaths ==
    { Str(<< "d", name >>) : name \in ViewNames } \cup { << >>, Str(<< "d" >>) }

InitView ==
    /\ InitServer
    /\ \E name \in ViewNames, c \in ViewContents :
        fs = [dirs |-> { << >>, << "d" >> },
              files |-> [p \in { << "d", name >> } |-> c]]

NextView ==
    \/ ViewOpen(ViewPaths)
    \/ ViewServe

SpecView == InitView /\ [][NextView]_vars

\* ------------------------------------------------------------------------
\* The server: an upload request and the read-only handlers

Requests ==
    { Post(Str(<< "d" >>), << >>),
      Post(Str(<< "d" >>), << "sub", Sep, "x" >>),
      Post(<< >>, << >>),
      [Post(Str(<< "d" >>), << >>) EXCEPT !.method = "GET"] }

Parts ==
    { Part("files", << "a" >>, DataB),
      Part("files", << "p.png" >>, << Run(0, 1) >>),
      Part("note", << >>, DataA) }

\* the path parameters of /api/tree, /api/raw and /api/download
ReadPaths ==
    { << >>, Str(<< "d" >>), Str(<< "d", "a" >>), Str(<< "d", "r.pdf" >>),
      Str(<< "d", "sub", "x" >>) }

\* the path parameters of /api/file
FilePaths ==
    { << >>, Str(<< "d" >>), Str(<< "d", "a" >>), Str(<< "d", "r.pdf" >>),
      Str(<< "d", "n.md" >>), Str(<< "d", "p.png" >>), Str(<< "d", "big" >>) }

Init == InitServer /\ fs = FsStart

Next ==
    \/ UploadStart(1, Requests)
    \/ UploadNextPart(1, Parts, MaxParts)
    \/ UploadMkdir(1)
    \/ UploadCreate(1)
    \/ UploadCopy(1)
    \/ UploadClose(1)
    \/ HandleTree(ReadPaths)
    \/ ViewOpen(FilePaths)
    \/ ViewServe
    \/ HandleRawFile(ReadPaths)
    \/ HandleDownload(ReadPaths)

Spec == Init /\ [][Next]_vars

\* ------------------------------------------------------------------------
\* What the log says of a request

Last(r) == log[r][Len(log[r])]

\* the processing of the last part read failed
Failed(r) == log[r] # << >> /\ Last(r).failed # ""

\* the destination of part k of request r
Dest(r, k) == OutPath(req[r], log[r][k])

\* the file parts among the first n parts of request r
FileParts(r, n) == { k \in 1 .. n : IsFilePart(log[r][k]) }

\* the bytes of the first n chunks of a part body
Prefix(data, n) == Bytes(SubSeq(data, 1, n))

\* the file at path p holds exactly the bytes c
Holds(p, c) == IsFile(fs, p) /\ fs.files[p] = c

\* No part is read after one that failed, and the part in hand is the last
\* one read.
InOrder(r) ==
    /\ \A k \in 1 .. Len(log[r]) - 1 : log[r][k].failed = ""
    /\ pc[r] \in {"mkdir", "create", "copy", "close"} =>
          /\ log[r] # << >>
          /\ IsFilePart(Last(r))
          /\ cur[r].outPath = Dest(r, Len(log[r]))

\* One response, naming the failure, and the destination of a part whose
\* copy failed is left holding the chunks written.
FailureReported(r) ==
    pc[r] = "done" /\ Failed(r) =>
        /\ resp[r] = << JsonFail(Last(r).failed) >>
        /\ Last(r).failed = "copy" =>
              Holds(Dest(r, Len(log[r])), Prefix(Last(r).data, Last(r).n))

\* {success:true} only at the end of a stream none of whose parts failed
SuccessOnlyAtEof(r) ==
    (\E i \in DOMAIN resp[r] : resp[r][i].success) =>
        /\ pc[r] = "done"
        /\ resp[r] = << JsonOk >>
        /\ \A k \in DOMAIN log[r] : log[r][k].failed = ""

\* C1 as stated: after a failure at part i every file part before i still
\* holds its full content.
C1_EarlierFilesKeepContent ==
    /\ InOrder(1)
    /\ FailureReported(1)
    /\ SuccessOnlyAtEof(1)
    /\ pc[1] = "done" /\ Failed(1) =>
          \A k \in FileParts(1, Len(log[1]) - 1) : Holds(Dest(1, k), Bytes(log[1][k].data))

\* C1, amended: within one upload request parts are processed in stream
\* order; when part i fails the handler writes exactly one response
\* {success:false, error} and stops, so nothing changes the filesystem or
\* the response afterwards; the destination of part i is left holding what
\* was copied; every file part before i whose destination no later part up
\* to and including i shares still holds its full content; {success:true}
\* is written only at the end of a stream with no failed part.
C1_FailureStops ==
    /\ [](/\ InOrder(1)
          /\ FailureReported(1)
          /\ SuccessOnlyAtEof(1)
          /\ pc[1] = "done" /\ Failed(1) =>
                \A k \in FileParts(1, Len(log[1]) - 1) :
                    (\A j \in FileParts(1, Len(log[1])) : j > k => Dest(1, j) # Dest(1, k))
                        => Holds(Dest(1, k), Bytes(log[1][k].data)))
    /\ [][pc[1] = "done" => fs' = fs /\ resp' = resp /\ log' = log]_vars

\* A second part's copy failed after its first chunk, the first part's file
\* written in full at another destination.
C1_Witness ==
    /\ pc[1] = "done" /\ Failed(1)
    /\ Len(log[1]) = 2
    /\ Last(1).failed = "copy" /\ Last(1).n = 1
    /\ IsFilePart(log[1][1])
    /\ Dest(1, 1) # Dest(1, 2)
    /\ Holds(Dest(1, 1), Bytes(log[1][1].data))

\* ------------------------------------------------------------------------
\* C2

\* a part with form-field name files and a declared filename
DeclaredFile(part) == part.form = "files" /\ part.fname # << >>

\* the processing of the last part read is over
PartEnded(r) ==
    log[r] # << >> /\ Last(r).failed # "stream" /\ pc[r] \in {"next", "done"}

\* C2 as stated: a part changes the filesystem if and only if its field
\* name is files and its declared filename is not empty; any other part
\* changes nothing, fails nothing and does not stop the request.
C2_ChangesIffFilePart ==
    PartEnded(1) =>
        /\ changed[1] <=> DeclaredFile(Last(1))
        /\ ~DeclaredFile(Last(1)) =>
              /\ Last(1).failed = ""
              /\ pc[1] = "next" \/ resp[1] = << JsonOk >>

\* C2, amended: a part can change the filesystem only if its field name is
\* files and its declared filename is not empty, and such a part leaves its
\* destination a regular file holding the bytes copied unless MkdirAll or
\* Create fails; any other part changes nothing, fails nothing and does not
\* stop the request.
C2_OnlyFilePartsWrite ==
    PartEnded(1) =>
        /\ changed[1] => DeclaredFile(Last(1))
        /\ DeclaredFile(Last(1)) /\ Last(1).failed \notin {"mkdir", "create"} =>
              Holds(Dest(1, Len(log[1])),
                    IF Last(1).failed = "copy" THEN Prefix(Last(1).data, Last(1).n)
                    ELSE Bytes(Last(1).data))
        /\ ~DeclaredFile(Last(1)) =>
              /\ ~changed[1]
              /\ Last(1).failed = ""
              /\ pc[1] = "next" \/ resp[1] = << JsonOk >>

\* A part of another field and a files part without a filename were skipped
\* and the handler reads on.
C2_Witness ==
    /\ Len(log[1]) = 2
    /\ pc[1] = "next"
    /\ log[1][1].form = "files" /\ log[1][1].fname = << >>
    /\ log[1][2].form # "files" /\ log[1][2].fname # << >>
    /\ fs = FsStart

\* ------------------------------------------------------------------------
\* C3

\* request r ended with {success:true}
Succeeded(r) == pc[r] = "done" /\ resp[r] = << JsonOk >>

\* no later part of request r was written to the destination of part k
LastWriter(r, k) ==
    \A j \in FileParts(r, Len(log[r])) : j > k => Dest(r, j) # Dest(r, k)

\* A listing of folder shows a file named by the path string name, and the
\* download of that entry's path answers 200 with exactly the bytes c.
RoundTrip(folder, name, c) ==
    \E e \in TreeResp(fs, FolderList, folder).entries :
        /\ << e.name >> = name
        /\ e.type = "file"
        /\ DownloadResp(fs, e.path).status = 200
        /\ DownloadResp(fs, e.path).content = c

\* a path string of one element that names an entry of a directory
OneElement(name) == Len(name) = 1 /\ name[1] \notin {Sep, ".", ".."}

Viewed == out.handler = "file" /\ out.status = 200 /\ IsFile(fs, Resolve(out.path))

ViewedBytes == fs.files[Resolve(out.path)]

ViewedExt == ToLower(Ext(out.path))

\* a byte equal to 0, below 0x09, or in 0x0E..0x1F among the first 800
SniffsBinary(c) ==
    \E i \in DOMAIN Take(c, 800) :
        Take(c, 800)[i].b < 9 \/ Take(c, 800)[i].b \in 14 .. 31

\* the decision order of the claim, first match wins
ClaimedKind(size, ext, binary) ==
    IF size > 52428800 THEN "error"
    ELSE IF ext = ".pdf" THEN "pdf"
    ELSE IF ext \in {".md", ".markdown"} THEN "markdown"
    ELSE IF binary /\ IsImage(TypeByExtension(ext)) THEN "image"
    ELSE IF binary THEN "binary"
    ELSE "text"

\* C4: the kind of every view is the claimed function of the file's size,
\* lower-cased extension and binary sniff; an oversize answer read no byte
\* of the file; without a fault of the operating system every file gets a
\* view.
C4_KindByDecisionOrder ==
    /\ Viewed =>
          /\ out.type = ClaimedKind(Size(ViewedBytes), ViewedExt, SniffsBinary(ViewedBytes))
          /\ out.type = "error" => out.read = 0
    /\ \A p \in DOMAIN fs.files :
          ViewResp(fs, ToSlash(p), "none").status = 200

\* A .pdf of 50 MiB + 1 bytes was answered as too large.
C4_Witness ==
    /\ Viewed
    /\ Size(ViewedBytes) = 52428801
    /\ ViewedExt = ".pdf"
    /\ out.type = "error"

\* the file is small enough to view and its first byte is 0x00
LeadingNul == Size(ViewedBytes) \in 1 .. 52428800 /\ ViewedBytes[1].b = 0

\* C5 as stated: a viewable file whose first byte is 0x00 is binary whatever
\* its extension; a file whose first 800 bytes hold no binary byte is never
\* binary or image.
C5_NulAlwaysBinary ==
    Viewed =>
        /\ LeadingNul => out.type = "binary"
        /\ ~SniffsBinary(ViewedBytes) => out.type \notin {"binary", "image"}

\* C5, amended: a viewable file whose first byte is 0x00 is pdf under the
\* extension .pdf, markdown under .md and .markdown, image under an
\* extension of an image/* type, and binary under every other extension; a
\* file whose first 800 bytes hold no binary byte is never binary or image.
C5_NulBinaryUnlessPdfMarkdownImage ==
    Viewed =>
        /\ LeadingNul =>
              out.type = IF ViewedExt = ".pdf" THEN "pdf"
                         ELSE IF ViewedExt \in {".md", ".markdown"} THEN "markdown"
                         ELSE IF IsImage(TypeByExtension(ViewedExt)) THEN "image"
                         ELSE "binary"
        /\ ~SniffsBinary(ViewedBytes) => out.type \notin {"binary", "image"}

\* A file of an unknown extension that starts with 0x00 was answered as
\* binary.
C5_Witness ==
    /\ Viewed
    /\ LeadingNul
    /\ ViewedExt = ""
    /\ out.type = "binary"

\* the truncation notice after the content of a file of s bytes
ClaimedNotice(s) == IF s > 1048576 THEN Run(-1, 1) ELSE << >>

\* c as a reader of the JSON response gets it: each byte of c that is not
\* valid UTF-8 (0xFF here) as the replacement character U+FFFD
RECURSIVE Replaced(_)
Replaced(c) ==
    IF c = << >> THEN << >>
    ELSE Cat(Run(IF c[1].b = 255 THEN 65533 ELSE c[1].b, c[1].n), Replaced(Tail(c)))

ClaimedType(p) ==
    IF TypeByExtension(Ext(p)) = "" THEN "application/octet-stream"
    ELSE TypeByExtension(Ext(p))

\* C7 as stated: /api/raw and /api/download answer NotFound, with no bytes,
\* listing or redirect, for a path that is no regular file; /api/download
\* answers 200 for a regular file, as an attachment named by its basename
\* and typed by its extension (application/octet-stream by default).
C7_NotFoundUnlessRegularFile ==
    [][out' # out /\ out'.handler \in {"raw", "download"} /\ out'.path # << >> =>
          /\ ~IsFile(fs, Resolve(out'.path)) =>
                /\ out'.status = 404
                /\ out'.content = << >>
                /\ out'.entries = {}
                /\ out'.location = << >>
          /\ IsFile(fs, Resolve(out'.path)) /\ out'.handler = "download" =>
                /\ out'.status = 200
                /\ out'.disp = << "attachment; filename=" >> \o Base(out'.path)
                /\ out'.mime = ClaimedType(out'.path)]_vars

\* C8 as stated: a request without its required parameter (path for
\* /api/file, /api/raw and /api/download, folder for /api/upload) gets a
\* 400-class status and a message naming the parameter, and touches no file.
C8_MissingParameterIs400 ==
    /\ out.handler \in {"file", "raw", "download"} /\ out.path = << >> =>
          /\ out.status \in 400 .. 499
          /\ out.text = "Missing path"
          /\ out.read = 0
    /\ \A r \in Reqs :
          pc[r] = "done" /\ req[r].method = "POST" /\ req[r].folder = << >> =>
              /\ Len(resp[r]) = 1
              /\ resp[r][1].status \in 400 .. 499
              /\ resp[r][1].error = "Missing folder param"
              /\ log[r] = << >>
              /\ ~changed[r]

\* C9: handleUpload holds at most one destination file open, only between
\* os.Create and out.Close() of the part in hand, and none when it reads the
\* next part or has answered; handleFileView holds its one file open from
\* os.Open to its return and none afterwards, whatever the return.
C9_HandlesClosed ==
    /\ \A r \in Reqs :
          /\ Cardinality(open[r]) <= 1
          /\ pc[r] \in {"copy", "close"} <=> open[r] # {}
          /\ \A h \in open[r] : h.id = Len(log[r]) /\ h.path = cur[r].outPath
    /\ vopen = IF vpc = "open" THEN 1 ELSE 0

\* The upload has answered a failed copy, and the viewer has returned its
\* answer for a file too large to view.
C9_Witness ==
    /\ pc[1] = "done" /\ Failed(1) /\ Last(1).failed = "copy"
    /\ open[1] = {}
    /\ vpc = "idle" /\ vopen = 0
    /\ out.handler = "file" /\ out.type = "error"

\* ------------------------------------------------------------------------
\* C10

\* the filesystem after the first n chunks of data are copied to the new
\* file p
RECURSIVE Copied(_, _, _, _)
Copied(f, p, data, n) ==
    IF n = 0 THEN f
    ELSE Write(Copied(f, p, data, n - 1), p, Size(Prefix(data, n - 1)), data[n])

\* Request q alone, from filesystem f: what it answers and leaves behind for
\* the parts of its log from the k-th on, the operating system and the
\* client injecting the faults the log notes.
RECURSIVE Alone(_, _, _, _)
Alone(f, q, parts, k) ==
    IF k > Len(parts) THEN [fs |-> f, resp |-> JsonOk]
    ELSE LET part == parts[k]
             p == Join(q.folder, IF q.rel # << >> THEN q.rel ELSE Base(part.fname))
             m == MkdirAll(f, Dir(p))
             c == Create(m.fs, p)
         IN  IF part.fault = "stream" THEN [fs |-> f, resp |-> JsonFail("stream")]
             ELSE IF ~DeclaredFile(part) THEN Alone(f, q, parts, k + 1)
             ELSE IF part.fault = "mkdir"
             THEN [fs |-> MkdirAllFault(f, Dir(p), part.n).fs, resp |-> JsonFail("mkdir")]
             ELSE IF ~m.ok THEN [fs |-> f, resp |-> JsonFail("mkdir")]
             ELSE IF part.fault = "create" \/ ~c.ok
             THEN [fs |-> m.fs, resp |-> JsonFail("create")]
             ELSE IF part.fault = "copy"
             THEN [fs |-> Copied(c.fs, p, part.data, part.n), resp |-> JsonFail("copy")]
             ELSE Alone(Copied(c.fs, p, part.data, Len(part.data)), q, parts, k + 1)

\* the destinations of the file parts request r has read
Dests(r) == { Dest(r, k) : k \in FileParts(r, Len(log[r])) }

\* no destination of one request is a destination of the other
DistinctDests == Dests(1) \cap Dests(2) = {}

\* nor a directory above one
UnrelatedDests ==
    \A p \in Dests(1), q \in Dests(2) : p \notin Prefixes(q) /\ q \notin Prefixes(p)

\* Request r has answered what it would have answered alone, and each of its
\* destinations is as it would have left it alone.
AsAlone(r) ==
    LET a == Alone(FsStart, req[r], log[r], 1) IN
        /\ resp[r] = << a.resp >>
        /\ \A p \in Dests(r) :
              /\ IsFile(fs, p) <=> IsFile(a.fs, p)
              /\ IsFile(fs, p) => fs.files[p] = a.fs.files[p]

\* request r is an upload that got as far as reading parts and has answered
Answered(r) == pc[r] = "done" /\ req[r].method = "POST" /\ req[r].folder # << >>

\* C10 as stated: two concurrent uploads whose destination paths are
\* distinct each end as if alone; no handler changes the folder list.
C10_IndependentIfDistinct ==
    /\ FolderList = << Str(<< "d" >>) >>
    /\ \A r \in Reqs : Answered(r) /\ DistinctDests => AsAlone(r)

\* C10, amended: two concurrent uploads whose destination paths are
\* distinct, none of them a directory above a destination of the other
\* request, each end as if alone: a failure in one request ends that request
\* only, and the other writes all its files with its own bytes and answers
\* {success:true}; no handler changes the folder list.
C10_IndependentIfUnrelated ==
    /\ FolderList = << Str(<< "d" >>) >>
    /\ \A r \in Reqs : Answered(r) /\ DistinctDests /\ UnrelatedDests => AsAlone(r)

\* One request has failed in a copy, the other has written two files with
\* its own bytes and answered {success:true}.
C10_Witness ==
    /\ Answered(1) /\ Answered(2)
    /\ DistinctDests /\ UnrelatedDests
    /\ Failed(1) /\ Last(1).failed = "copy"
    /\ Succeeded(2)
    /\ Cardinality(Dests(2)) = 2
    /\ \A p \in Dests(2) : Holds(p, Bytes(DataOf(2)))

\* ------------------------------------------------------------------------
\* C11

\* the files that were not there at startup
Created == DOMAIN fs.files \ DOMAIN FsStart.files

\* the last file part of request r in stream order
LastFilePart(r) ==
    CHOOSE k \in FileParts(r, Len(log[r])) :
        \A j \in FileParts(r, Len(log[r])) : j <= k

\* Where a part goes: the folder joined with the relativePath parameter if
\* the request has one, and with the given filename of the part if not.
DestOf(q, name) == Join(q.folder, IF q.rel # << >> THEN q.rel ELSE name)

\* The part in hand was created at path d: the directories above d exist,
\* and the file holds the chunks copied so far and nothing older.  Once
\* the part is done without a failure the file holds the part's bytes.
WrittenAt(r, d) ==
    /\ pc[r] \in {"copy", "close"} =>
          /\ Prefixes(Dir(d)) \subseteq fs.dirs
          /\ Holds(d, Prefix(Last(r).data, cur[r].i))
    /\ pc[r] = "next" /\ log[r] # << >> /\ DeclaredFile(Last(r)) =>
          /\ Prefixes(Dir(d)) \subseteq fs.dirs
          /\ Holds(d, Bytes(Last(r).data))

\* a successful request with a relativePath and two file parts or more
HintedTwice(r) ==
    /\ Succeeded(r)
    /\ req[r].rel # << >>
    /\ Cardinality(FileParts(r, Len(log[r]))) >= 2

\* such a request created no file but the one at join(folder, relativePath),
\* which holds the bytes of the last file part
OneFileLeft(r) ==
    /\ Created \subseteq {Join(req[r].folder, req[r].rel)}
    /\ Holds(Join(req[r].folder, req[r].rel), Bytes(log[r][LastFilePart(r)].data))

\* C11 as stated: every file part is written at join(folder, relativePath)
\* if the request has a relativePath and at join(folder, declared filename)
\* if not, under directories created as needed and over a truncated file;
\* and a successful request with a relativePath and two file parts or more
\* leaves one file, at join(folder, relativePath), with the bytes of the
\* last file part, and creates no file named after a declared filename.
C11_DestinationIsHintOrDeclaredName ==
    /\ log[1] # << >> => WrittenAt(1, DestOf(req[1], Last(1).fname))
    /\ HintedTwice(1) =>
          /\ OneFileLeft(1)
          /\ \A k \in FileParts(1, Len(log[1])) :
                Join(req[1].folder, log[1][k].fname) \notin Created

\* C11, amended: every file part is written at join(folder, relativePath)
\* if the request has a relativePath and at join(folder, the last element
\* of the declared filename) if not, under directories created as needed
\* and over a truncated file; and a successful request with a relativePath
\* and two file parts or more creates no file but the one at
\* join(folder, relativePath), which holds the bytes of the last file part:
\* none at join(folder, a part's filename) unless that is the same path.
C11_DestinationIsHintOrBaseName ==
    /\ log[1] # << >> => WrittenAt(1, DestOf(req[1], FileName(Last(1))))
    /\ HintedTwice(1) =>
          /\ OneFileLeft(1)
          /\ \A k \in FileParts(1, Len(log[1])) :
                Join(req[1].folder, FileName(log[1][k])) # Join(req[1].folder, req[1].rel)
                    => Join(req[1].folder, FileName(log[1][k])) \notin Created

\* A request with relativePath sub/x and two file parts of different names
\* and bodies succeeded: the directory sub was made and the only new file
\* is sub/x with the second body.
C11_Witness ==
    /\ HintedTwice(1)
    /\ req[1].rel = << "sub", Sep, "x" >>
    /\ log[1][1].fname # log[1][2].fname
    /\ Bytes(log[1][1].data) # Bytes(log[1][2].data)
    /\ Created = {<< "d", "sub", "x" >>}
    /\ Holds(<< "d", "sub", "x" >>, Bytes(log[1][2].data))
    /\ << "d", "sub" >> \in fs.dirs

====
